---- MODULE Spec2Model ----
\* Lifecycle model of gin-contrib/graceful: one Graceful manager, the goroutines
\* its RunWithContext / Start launch, and the callers of its public methods.
\* Source modelled: src/graceful.go lines 1-321 and src/options.go lines 96-193.
EXTENDS Integers, Sequences, FiniteSets, TLC

\* ---------------------------------------------------------------- bounds
MaxServes == 2      \* serve goroutines launched over the manager's life
MaxReq == 1         \* requests accepted by one server
MaxStops == 2       \* Stop calls
MaxShutdowns == 1   \* Shutdown calls made from outside the manager
MaxCloses == 2      \* Close calls
MaxHooks == 2       \* hooks registered for one phase of Shutdown
MaxTimeout == 3     \* largest timeout a caller configures, in seconds

Runs == 1..MaxServes     \* RunWithContext invocations (direct or through Start)
Slots == 1..MaxServes    \* strategies applied by New
Stoppers == 1..MaxStops
Callers == 1..MaxShutdowns
Closers == 1..MaxCloses
\* Strategies ever applied to one manager: the options of New and one default
\* per run at most.
Strategies == 1..(2 * MaxServes)

\* ---------------------------------------------------------------- values
Kinds == {"addr", "tls", "unix", "fd", "listener"}
ErrApply == "apply error"
ErrNilServer == "nil http server"
NilServer == "nil"
Nil == "nil"
None == "none"
Canceled == "context.Canceled"
DeadlineExceeded == "context.DeadlineExceeded"
ErrServerClosed == "http.ErrServerClosed"
ErrServe == "serve error"
ErrServeNext == "serve error of a later server"
ErrAlreadyStarted == "already started router"
ErrNotStarted == "router not started"
ErrHook == "hook error"
\* Timeouts of the servers the manager builds, in seconds.
DefaultReadTimeout == 15
DefaultWriteTimeout == 30
DefaultIdleTimeout == 60
DefaultReadHeaderTimeout == 5

\* Who can be inside Shutdown: the watcher of run r, run r itself (its final
\* call) and the outside callers.
W(r) == <<"watcher", r>>
R(r) == <<"run", r>>
X(k) == <<"caller", k>>
C(k) == <<"closer", k>>
Free == <<"free", 0>>
Invokers == {W(r) : r \in Runs} \cup {R(r) : r \in Runs} \cup {X(k) : k \in Callers}
              \cup {C(k) : k \in Closers}

VARIABLES
  started, stop, err,            \* Graceful.started / stop / err (0 = nil, else the run of that Start)
  lock,                          \* Graceful.lock: Free or the invoker holding it
  servers, listenAndServe, cleanup,  \* the three collections
  rpc, rkind, ctx, egErr, rres,  \* per RunWithContext invocation
  startedDone,                   \* ctxStarted of the Start that launched run r is cancelled
  spc, sres, shut,               \* per serve goroutine and the http.Server it makes
  accepted, inflight,            \* requests of that server
  sd, sdIdx, sdErr,              \* Shutdown invocations and the loop of the one holding the lock
  pending,                       \* servers with a request in flight when an outside Shutdown was called
  xctx, xres,                    \* context given to an outside Shutdown, and its result
  kpc, kstarted, kstop, kch, kerr, kres,  \* Stop calls: what resetStartedState captured, the error received, the result
  sch,                           \* the channel the goroutine of Start read from g.err for its send
  startRes,                      \* result of the last Start call
  cpc,                           \* Close calls
  cleaned,                       \* how many times the cleanup of each applied strategy was invoked
  applied, injected,             \* strategies applied by options, default strategies injected
  afterClose,                    \* run r was invoked after some Close had returned
  opts, newRes,                  \* New: the options not applied yet, and its result
  sock,                          \* strategies whose Unix socket file exists
  hooks, hpc, ran, herr, hres,   \* shutdown hooks: registered, phase, run so far, failed, result
  timeouts, built                \* configured server timeouts, and those of the server built

vars == <<started, stop, err, lock, servers, listenAndServe, cleanup,
          rpc, rkind, ctx, egErr, rres, startedDone, spc, sres, shut,
          accepted, inflight, sd, sdIdx, sdErr, pending, xctx, xres,
          kpc, kstarted, kstop, kch, kerr, kres, sch, startRes,
          cpc, cleaned, applied, injected, afterClose, opts, newRes,
          sock, hooks, hpc, ran, herr, hres, timeouts, built>>

gvars == <<started, stop, err>>
cvars == <<servers, listenAndServe, cleanup>>
rvars == <<rpc, rkind, ctx, egErr, rres, startedDone>>
svars == <<spc, sres, shut>>
qvars == <<accepted, inflight>>
dvars == <<sd, sdIdx, sdErr, pending, xctx, xres>>
kvars == <<kpc, kstarted, kstop, kch, kerr, kres, sch>>
avars == <<startRes>>
nvars == <<opts, newRes>>
yvars == <<cpc, cleaned, applied, injected, afterClose, nvars>>
hvars == <<hooks, hpc, ran, herr, hres>>
tvars == <<timeouts, built>>
pvars == <<hvars, tvars>>
zvars == <<yvars, sock, pvars>>

\* ---------------------------------------------------------------- helpers
Srv(r, i) == <<r, i>>
Launched(r) == {i \in Slots : spc[r][i] # "idle"}
CtxDone(r) == ctx[r] # "live"
\* http.Server.Shutdown gives up when its context is done.
InvokerCtxDone(h) ==
  CASE h[1] = "caller" -> xctx[h[2]] = "expired"
    [] h[1] = "closer" -> FALSE
    [] OTHER -> CtxDone(h[2])
InvokerCtxErr(h) ==
  IF h[1] = "caller" THEN DeadlineExceeded ELSE Canceled
\* The options given to New: n strategies, WithAddr and WithTLS in turn.
Options(n) == [i \in 1..n |-> IF i % 2 = 1 THEN "addr" ELSE "tls"]
\* No option at all, or two and more: a manager given the single option
\* WithAddr(":8080") is the one the default injection makes of the first.
Configs == {Options(n) : n \in (0..MaxServes) \ {1}}

\* ---------------------------------------------------------------- Init
\* The zero value of Graceful, with no goroutine and no call under way.
Zero ==
  /\ started = 0 /\ stop = 0 /\ err = 0
  /\ lock = Free
  /\ servers = <<>>
  /\ rpc = [r \in Runs |-> "idle"]
  /\ rkind = [r \in Runs |-> None]
  /\ ctx = [r \in Runs |-> "live"]
  /\ egErr = [r \in Runs |-> Nil]
  /\ rres = [r \in Runs |-> None]
  /\ startedDone = [r \in Runs |-> FALSE]
  /\ spc = [r \in Runs |-> [i \in Slots |-> "idle"]]
  /\ sres = [r \in Runs |-> [i \in Slots |-> None]]
  /\ shut = [r \in Runs |-> [i \in Slots |-> FALSE]]
  /\ accepted = [r \in Runs |-> [i \in Slots |-> 0]]
  /\ inflight = [r \in Runs |-> [i \in Slots |-> 0]]
  /\ sd = [h \in Invokers |-> "idle"]
  /\ sdIdx = 0 /\ sdErr = Nil
  /\ pending = [k \in Callers |-> {}]
  /\ xctx = [k \in Callers |-> None]
  /\ xres = [k \in Callers |-> None]
  /\ kpc = [c \in Stoppers |-> "idle"]
  /\ kstarted = [c \in Stoppers |-> 0]
  /\ kstop = [c \in Stoppers |-> 0]
  /\ kch = [c \in Stoppers |-> 0]
  /\ kerr = [c \in Stoppers |-> None]
  /\ kres = [c \in Stoppers |-> None]
  /\ sch = [r \in Runs |-> 0]
  /\ startRes = None
  /\ cpc = [k \in Closers |-> "idle"]
  /\ cleaned = [n \in Strategies |-> 0]
  /\ injected = 0
  /\ afterClose = [r \in Runs |-> FALSE]
  /\ sock = {}
  /\ hooks = [before |-> <<>>, after |-> <<>>]
  /\ hpc = <<"idle", 0>> /\ ran = <<>> /\ herr = {} /\ hres = <<>>
  /\ timeouts = [read |-> 0, write |-> 0, idle |-> 0]
  /\ built = <<>>

\* The manager New returned: every option was applied; WithAddr / WithTLS only
\* record a serve function and a cleanup, no server yet.
Init ==
  /\ Zero
  /\ listenAndServe \in Configs
  /\ cleanup = [i \in 1..Len(listenAndServe) |-> i]
  /\ applied = Len(listenAndServe)
  /\ opts = <<>> /\ newRes = Nil

\* New, before the first option is applied: g := &Graceful{Engine: router}.
\* An option is a strategy kind and whether applying it fails (net.Listen or
\* net.FileListener returning an error).
Option(k, f) == [kind |-> k, fails |-> f]
\* Variant of WithServer: srv is not compared with nil.
WithServerUnchecked(srv) == [kind |-> "server", fails |-> FALSE, srv |-> srv]

\* WithServer(srv): the option fails with errors.New("nil http server") when
\* srv is nil; otherwise its serve function registers srv and serves on it.
WithServer(srv) == [kind |-> "server", fails |-> srv = NilServer, srv |-> srv]
OptionSet ==
  {Option(k, FALSE) : k \in Kinds} \cup {Option(k, TRUE) : k \in {"unix", "fd"}}
    \cup {WithServer(srv) : srv \in {NilServer, "server"}}
\* The error a failing option returns.
OptionErr(o) == IF o.kind = "server" THEN ErrNilServer ELSE ErrApply
OptionLists == UNION {[1..n -> OptionSet] : n \in 0..MaxServes}
InitNew ==
  /\ Zero
  /\ listenAndServe = <<>> /\ cleanup = <<>>
  /\ applied = 0
  /\ opts \in OptionLists /\ newRes = None

\* The next unused run (runs are taken in order), as long as the serve
\* goroutines it will launch stay within MaxServes.
FreshRun(r) ==
  /\ rpc[r] = "idle" /\ \A q \in Runs : q < r => rpc[q] # "idle"
  /\ r * (IF Len(listenAndServe) = 0 THEN 1 ELSE Len(listenAndServe)) <= MaxServes

\* ---------------------------------------------------------------- RunWithContext
\* A caller invokes RunWithContext(ctx) with its own cancellable context.
RunCall(r) ==
  /\ newRes = Nil
  /\ FreshRun(r)
  /\ rpc' = [rpc EXCEPT ![r] = "ensure"]
  /\ rkind' = [rkind EXCEPT ![r] = "direct"]
  /\ afterClose' = [afterClose EXCEPT ![r] = \E k \in Closers : cpc[k] = "done"]
  /\ UNCHANGED <<ctx, egErr, rres, startedDone>>
  /\ UNCHANGED <<gvars, lock, cvars, svars, qvars, dvars, kvars, avars>>
  /\ UNCHANGED <<cpc, cleaned, applied, injected, nvars, sock, pvars>>

\* The caller cancels the context it passed to RunWithContext.
CancelCtx(r) ==
  /\ rkind[r] = "direct" /\ rpc[r] # "returned" /\ ctx[r] = "live"
  /\ ctx' = [ctx EXCEPT ![r] = "cancelled"]
  /\ UNCHANGED <<rpc, rkind, egErr, rres, startedDone>>
  /\ UNCHANGED <<gvars, lock, cvars, svars, qvars, dvars, kvars, avars, zvars>>

\* A caller invokes Run(addr) or RunTLS(addr, cert, key): it applies WithAddr
\* or WithTLS, without the lock, and then calls
\* RunWithContext(context.Background()). (One such call applies at a time.)
RunAddrCall(r) ==
  /\ newRes = Nil
  /\ rpc[r] = "idle" /\ \A q \in Runs : q < r => rpc[q] \notin {"idle", "apply", "applied"}
  /\ r * (Len(listenAndServe) + 1) <= MaxServes
  /\ rpc' = [rpc EXCEPT ![r] = "apply"]
  /\ rkind' = [rkind EXCEPT ![r] = "direct"]
  /\ afterClose' = [afterClose EXCEPT ![r] = \E k \in Closers : cpc[k] = "done"]
  /\ UNCHANGED <<ctx, egErr, rres, startedDone>>
  /\ UNCHANGED <<gvars, lock, cvars, svars, qvars, dvars, kvars, avars>>
  /\ UNCHANGED <<cpc, cleaned, applied, injected, nvars, sock, pvars>>

\* apply called by Run: g.listenAndServe = append(g.listenAndServe, srv).
ApplyServe(r, k) ==
  /\ rpc[r] = "apply"
  /\ listenAndServe' = Append(listenAndServe, k)
  /\ rpc' = [rpc EXCEPT ![r] = "applied"]
  /\ UNCHANGED <<servers, cleanup, rkind, ctx, egErr, rres, startedDone>>
  /\ UNCHANGED <<gvars, lock, svars, qvars, dvars, kvars, avars, zvars>>

\* apply called by Run: g.cleanup = append(g.cleanup, cleanup); Run then
\* calls RunWithContext.
ApplyCleanup(r) ==
  /\ rpc[r] = "applied"
  /\ cleanup' = Append(cleanup, applied + injected + 1)
  /\ applied' = applied + 1
  /\ rpc' = [rpc EXCEPT ![r] = "ensure"]
  /\ UNCHANGED <<servers, listenAndServe, rkind, ctx, egErr, rres, startedDone>>
  /\ UNCHANGED <<gvars, lock, svars, qvars, dvars, kvars, avars>>
  /\ UNCHANGED <<cpc, cleaned, injected, afterClose, nvars, sock, pvars>>

\* Variant of ensureAtLeastDefaultServer: the default is added whatever
\* g.listenAndServe holds.
ensureDefaultAlways(r) ==
  /\ rpc[r] = "ensure" /\ lock = Free
  /\ listenAndServe' = Append(listenAndServe, "addr")
  /\ cleanup' = Append(cleanup, applied + injected + 1)
  /\ injected' = injected + 1
  /\ rpc' = [rpc EXCEPT ![r] = "launch"]
  /\ sd' = [sd EXCEPT ![W(r)] = "wait"]
  /\ UNCHANGED <<rkind, ctx, egErr, rres, startedDone, servers>>
  /\ UNCHANGED <<gvars, lock, svars, qvars, sdIdx, sdErr, pending, xctx, xres, kvars, avars>>
  /\ UNCHANGED <<cpc, cleaned, applied, afterClose, nvars, sock, pvars>>

\* ensureAtLeastDefaultServer, then context.WithCancel and the watcher goroutine.
ensureAtLeastDefaultServer(r) ==
  /\ rpc[r] = "ensure" /\ lock = Free
  /\ IF Len(listenAndServe) = 0
       THEN /\ listenAndServe' = Append(listenAndServe, "addr")
            /\ cleanup' = Append(cleanup, applied + injected + 1)
            /\ injected' = injected + 1
       ELSE UNCHANGED <<listenAndServe, cleanup, injected>>
  /\ rpc' = [rpc EXCEPT ![r] = "launch"]
  /\ sd' = [sd EXCEPT ![W(r)] = "wait"]
  /\ UNCHANGED <<rkind, ctx, egErr, rres, startedDone, servers>>
  /\ UNCHANGED <<gvars, lock, svars, qvars, sdIdx, sdErr, pending, xctx, xres, kvars, avars>>
  /\ UNCHANGED <<cpc, cleaned, applied, afterClose, nvars, sock, pvars>>

\* lock; eg.Go for every serve function; unlock. The serve function of
\* WithTLS is told apart: it is the one that registers its server twice.
RunLaunch(r) ==
  /\ rpc[r] = "launch" /\ lock = Free
  /\ spc' = [spc EXCEPT ![r] = [i \in Slots |->
                 IF i > Len(listenAndServe) THEN "idle"
                 ELSE IF listenAndServe[i] = "tls" THEN "start tls" ELSE "start"]]
  /\ rpc' = [rpc EXCEPT ![r] = "wait"]
  /\ UNCHANGED <<rkind, ctx, egErr, rres, startedDone, sres, shut>>
  /\ UNCHANGED <<gvars, lock, cvars, qvars, dvars, kvars, avars, zvars>>

\* Variant of GroupDone: eg.Wait() returns with the first goroutine that ends.
GroupSomeDone(r) == \E i \in Launched(r) : spc[r][i] = "done"

\* eg.Wait(): every goroutine of the group has returned.
GroupDone(r) == \A i \in Launched(r) : spc[r][i] = "done"

\* RunWithContext returns e: the deferred cancel() runs, and the goroutine of
\* Start then cancels ctxStarted before it sends e on g.err.
Return(r, e) ==
  /\ rres' = [rres EXCEPT ![r] = e]
  /\ ctx' = [ctx EXCEPT ![r] = IF @ = "live" THEN "released" ELSE @]
  /\ IF rkind[r] = "start"
       THEN /\ rpc' = [rpc EXCEPT ![r] = "send"]
            /\ startedDone' = [startedDone EXCEPT ![r] = TRUE]
       ELSE /\ rpc' = [rpc EXCEPT ![r] = "returned"]
            /\ startedDone' = startedDone

\* Variant of WaitReturn: a cancelled context is reported as success.
WaitReturnNil(r) ==
  /\ rpc[r] = "wait" /\ GroupDone(r)
  /\ egErr[r] # Nil \/ CtxDone(r)
  /\ Return(r, egErr[r])
  /\ UNCHANGED <<rkind, egErr>>
  /\ UNCHANGED <<gvars, lock, cvars, svars, qvars, dvars, kvars, avars, zvars>>

\* waitWithContext: the group's error, else ctx.Err() when the context is
\* done, else nil; RunWithContext returns a non-nil result at once.
WaitReturn(r) ==
  /\ rpc[r] = "wait" /\ GroupDone(r)
  /\ egErr[r] # Nil \/ CtxDone(r)
  /\ Return(r, IF egErr[r] # Nil THEN egErr[r] ELSE Canceled)
  /\ UNCHANGED <<rkind, egErr>>
  /\ UNCHANGED <<gvars, lock, cvars, svars, qvars, dvars, kvars, avars, zvars>>

\* ---------------------------------------------------------------- serve functions
\* Variant of Unlink: closing a listener leaves its socket file in place.
UnlinkNever(S) == sock

\* The listeners the servers of S serve on are closed (by srv.Shutdown, or by
\* the deferred l.Close() of srv.Serve(l) when it returns): closing the
\* listener net.Listen("unix", file) made unlinks the socket file.
Unlink(S) == sock \ {cleanup[s[2]] : s \in {t \in S : t[2] <= Len(cleanup)}}

\* appendHTTPServer: lock; g.servers = append(g.servers, srv); unlock.
appendHTTPServer(r, i) ==
  /\ lock = Free
  /\ servers' = Append(servers, Srv(r, i))

\* The serve function of WithAddr / WithTLS starts with appendHTTPServer;
\* WithTLS then appends the same server a second time under the lock.
ServeRegister(r, i) ==
  /\ spc[r][i] \in {"start", "start tls"}
  /\ appendHTTPServer(r, i)
  /\ spc' = [spc EXCEPT ![r][i] =
               IF @ = "start tls" THEN "again" ELSE "registered"]
  /\ UNCHANGED <<sres, shut, listenAndServe, cleanup>>
  /\ UNCHANGED <<gvars, lock, rvars, qvars, dvars, kvars, avars, zvars>>

ServeRegisterAgain(r, i) ==
  /\ spc[r][i] = "again" /\ lock = Free
  /\ servers' = Append(servers, Srv(r, i))
  /\ spc' = [spc EXCEPT ![r][i] = "registered"]
  /\ UNCHANGED <<sres, shut, listenAndServe, cleanup>>
  /\ UNCHANGED <<gvars, lock, rvars, qvars, dvars, kvars, avars, zvars>>

\* Variant of GroupError: http.ErrServerClosed is not filtered out.
GroupErrorAny(r, e) ==
  IF egErr[r] = Nil THEN e ELSE egErr[r]

\* Variant of GroupError: the group keeps the error of the last failure.
GroupErrorLast(r, e) ==
  IF e # ErrServerClosed THEN e ELSE egErr[r]

\* The goroutine of eg.Go: http.ErrServerClosed counts as success, any other
\* error is returned to the group, which keeps the first one.
GroupError(r, e) ==
  IF e # ErrServerClosed /\ egErr[r] = Nil THEN e ELSE egErr[r]

\* The error a failing ListenAndServe or Serve returns names the address or
\* listener of its own server: the first server's differs from the others'.
ServeErr(i) == IF i = 1 THEN ErrServe ELSE ErrServeNext

ServeErrs == {ServeErr(i) : i \in Slots}

\* The serve function of a WithUnix strategy serves on the one listener the
\* option made when it was applied: once that listener is closed, Serve on it
\* can only fail. (The listener of strategy n is open exactly while its
\* socket file exists.)
ListenerClosed(i) ==
  /\ i <= Len(listenAndServe) /\ listenAndServe[i] = "unix"
  /\ cleanup[i] \notin sock

\* srv.ListenAndServe / ListenAndServeTLS / Serve: ErrServerClosed at once when
\* the server was already shut down; otherwise it binds and serves, or fails.
ServeListen(r, i) ==
  /\ spc[r][i] = "registered"
  /\ \/ /\ shut[r][i]
        /\ spc' = [spc EXCEPT ![r][i] = "done"]
        /\ sres' = [sres EXCEPT ![r][i] = ErrServerClosed]
        /\ egErr' = [egErr EXCEPT ![r] = GroupError(r, ErrServerClosed)]
        /\ sock' = Unlink({Srv(r, i)})
     \/ /\ ~shut[r][i] /\ ~ListenerClosed(i)
        /\ spc' = [spc EXCEPT ![r][i] = "serving"]
        /\ UNCHANGED <<sres, egErr, sock>>
     \/ /\ ~shut[r][i]
        /\ spc' = [spc EXCEPT ![r][i] = "done"]
        /\ sres' = [sres EXCEPT ![r][i] = ServeErr(i)]
        /\ egErr' = [egErr EXCEPT ![r] = GroupError(r, ServeErr(i))]
        /\ sock' = Unlink({Srv(r, i)})
  /\ UNCHANGED <<shut, rpc, rkind, ctx, rres, startedDone>>
  /\ UNCHANGED <<gvars, lock, cvars, qvars, dvars, kvars, avars, yvars, pvars>>

\* Serve returns ErrServerClosed once Shutdown has closed its listener.
ServeClosed(r, i) ==
  /\ spc[r][i] = "serving" /\ shut[r][i]
  /\ spc' = [spc EXCEPT ![r][i] = "done"]
  /\ sres' = [sres EXCEPT ![r][i] = ErrServerClosed]
  /\ egErr' = [egErr EXCEPT ![r] = GroupError(r, ErrServerClosed)]
  /\ sock' = Unlink({Srv(r, i)})
  /\ UNCHANGED <<shut, rpc, rkind, ctx, rres, startedDone>>
  /\ UNCHANGED <<gvars, lock, cvars, qvars, dvars, kvars, avars, yvars, pvars>>

\* ---------------------------------------------------------------- requests
\* Variant of RequestArrive: a listener that Shutdown closed still accepts.
RequestArriveClosed(r, i) ==
  /\ spc[r][i] = "serving" /\ accepted[r][i] < MaxReq
  /\ accepted' = [accepted EXCEPT ![r][i] = @ + 1]
  /\ inflight' = [inflight EXCEPT ![r][i] = @ + 1]
  /\ UNCHANGED <<gvars, lock, cvars, rvars, svars, dvars, kvars, avars, zvars>>

\* A connection is accepted and its handler starts: only a server whose
\* listener is open accepts.
RequestArrive(r, i) ==
  /\ spc[r][i] = "serving" /\ ~shut[r][i] /\ accepted[r][i] < MaxReq
  /\ accepted' = [accepted EXCEPT ![r][i] = @ + 1]
  /\ inflight' = [inflight EXCEPT ![r][i] = @ + 1]
  /\ UNCHANGED <<gvars, lock, cvars, rvars, svars, dvars, kvars, avars, zvars>>

\* The handler returns and the response is written.
RequestComplete(r, i) ==
  /\ inflight[r][i] > 0
  /\ inflight' = [inflight EXCEPT ![r][i] = @ - 1]
  /\ UNCHANGED <<accepted>>
  /\ UNCHANGED <<gvars, lock, cvars, rvars, svars, dvars, kvars, avars, zvars>>

\* ---------------------------------------------------------------- Shutdown
\* Variant of Sweep: srv.Shutdown does not wait for requests in flight.
SweepNoWait(i, closed) ==
  [idx |-> Len(servers) + 1,
   closed |-> closed \cup {servers[j] : j \in i..Len(servers)}]

\* The loop of Shutdown from index i of g.servers: srv.Shutdown closes the
\* listener of each server in turn and returns at once when no request is in
\* flight; the loop stops at the first server that has one. closed: the servers
\* whose listeners are closed so far.
RECURSIVE Sweep(_, _)
Sweep(i, closed) ==
  IF i > Len(servers)
    THEN [idx |-> i, closed |-> closed]
    ELSE IF inflight[servers[i][1]][servers[i][2]] > 0
      THEN [idx |-> i, closed |-> closed \cup {servers[i]}]
      ELSE Sweep(i + 1, closed \cup {servers[i]})

\* Variant of Shutdown: g.servers is not cleared at the end.
ShutdownKeep(h, i, e) ==
  LET w == Sweep(i, {}) IN
  /\ shut' = [r \in Runs |-> [j \in Slots |-> shut[r][j] \/ Srv(r, j) \in w.closed]]
  /\ sock' = Unlink({s \in w.closed : spc[s[1]][s[2]] = "serving"})
  /\ IF w.idx <= Len(servers)
       THEN /\ lock' = h
            /\ sd' = [sd EXCEPT ![h] = "drain"]
            /\ sdIdx' = w.idx /\ sdErr' = e
            /\ UNCHANGED <<servers, xres, rres, ctx, rpc, startedDone>>
       ELSE /\ lock' = Free
            /\ sd' = [sd EXCEPT ![h] = "done"]
            /\ sdIdx' = 0 /\ sdErr' = Nil
            /\ servers' = servers
            /\ xres' = IF h[1] = "caller" THEN [xres EXCEPT ![h[2]] = e] ELSE xres
            /\ IF h[1] = "run"
                 THEN Return(h[2], e)
                 ELSE UNCHANGED <<rres, ctx, rpc, startedDone>>

\* Shutdown, holding the lock, from index i with error e so far: it either
\* blocks in srv.Shutdown of a server with requests in flight (the lock stays
\* held), or ends with g.servers = nil, unlock, return e.
Shutdown(h, i, e) ==
  LET w == Sweep(i, {}) IN
  /\ shut' = [r \in Runs |-> [j \in Slots |-> shut[r][j] \/ Srv(r, j) \in w.closed]]
  /\ sock' = Unlink({s \in w.closed : spc[s[1]][s[2]] = "serving"})
  /\ IF w.idx <= Len(servers)
       THEN /\ lock' = h
            /\ sd' = [sd EXCEPT ![h] = "drain"]
            /\ sdIdx' = w.idx /\ sdErr' = e
            /\ UNCHANGED <<servers, xres, rres, ctx, rpc, startedDone>>
       ELSE /\ lock' = Free
            /\ sd' = [sd EXCEPT ![h] = "done"]
            /\ sdIdx' = 0 /\ sdErr' = Nil
            /\ servers' = <<>>
            /\ xres' = IF h[1] = "caller" THEN [xres EXCEPT ![h[2]] = e] ELSE xres
            /\ IF h[1] = "run"
                 THEN Return(h[2], e)
                 ELSE UNCHANGED <<rres, ctx, rpc, startedDone>>

\* The watcher goroutine: <-ctx.Done(), then _ = g.Shutdown(ctx).
Watcher(r) ==
  /\ sd[W(r)] = "wait" /\ CtxDone(r)
  /\ lock = Free
  /\ Shutdown(W(r), 1, Nil)
  /\ UNCHANGED <<listenAndServe, cleanup, rkind, egErr, spc, sres, pending, xctx>>
  /\ UNCHANGED <<gvars, qvars, kvars, avars, yvars, pvars>>

\* waitWithContext returned nil: RunWithContext ends with return g.Shutdown(ctx).
WaitShutdown(r) ==
  /\ rpc[r] = "wait" /\ GroupDone(r)
  /\ egErr[r] = Nil /\ ~CtxDone(r)
  /\ rpc' = [rpc EXCEPT ![r] = "shutdown"]
  /\ sd' = [sd EXCEPT ![R(r)] = "want"]
  /\ UNCHANGED <<rkind, ctx, egErr, rres, startedDone>>
  /\ UNCHANGED <<gvars, lock, cvars, svars, qvars, sdIdx, sdErr, pending, xctx, xres, kvars, avars, zvars>>

\* g.lock.Lock() of a Shutdown called by a run or from outside.
ShutdownEnter(h) ==
  /\ sd[h] = "want" /\ lock = Free
  /\ Shutdown(h, 1, Nil)
  /\ UNCHANGED <<listenAndServe, cleanup, rkind, egErr, spc, sres, pending, xctx>>
  /\ UNCHANGED <<gvars, qvars, kvars, avars, yvars, pvars>>

\* Variant of ShutdownDrain: a srv.Shutdown that succeeds resets the error.
ShutdownDrainForget(h) ==
  /\ sd[h] = "drain" /\ lock = h
  /\ LET s == servers[sdIdx] IN
       \/ /\ inflight[s[1]][s[2]] = 0
          /\ Shutdown(h, sdIdx + 1, Nil)
       \/ /\ inflight[s[1]][s[2]] > 0 /\ InvokerCtxDone(h)
          /\ Shutdown(h, sdIdx + 1, InvokerCtxErr(h))
  /\ UNCHANGED <<listenAndServe, cleanup, rkind, egErr, spc, sres, pending, xctx>>
  /\ UNCHANGED <<gvars, qvars, kvars, avars, yvars, pvars>>

\* srv.Shutdown polls: it returns nil when the connections are idle and
\* ctx.Err() when the context is done first; Shutdown keeps the last error
\* and goes on with the next server.
ShutdownDrain(h) ==
  /\ sd[h] = "drain" /\ lock = h
  /\ LET s == servers[sdIdx] IN
       \/ /\ inflight[s[1]][s[2]] = 0
          /\ Shutdown(h, sdIdx + 1, sdErr)
       \/ /\ inflight[s[1]][s[2]] > 0 /\ InvokerCtxDone(h)
          /\ Shutdown(h, sdIdx + 1, InvokerCtxErr(h))
  /\ UNCHANGED <<listenAndServe, cleanup, rkind, egErr, spc, sres, pending, xctx>>
  /\ UNCHANGED <<gvars, qvars, kvars, avars, yvars, pvars>>

\* Servers with a request in flight.
Busy == {s \in Runs \X Slots : inflight[s[1]][s[2]] > 0}

\* A caller outside the manager invokes Shutdown(ctx), with a context that
\* never expires ("background") or one that carries a deadline.
ShutdownCall(k, c) ==
  /\ newRes = Nil
  /\ sd[X(k)] = "idle" /\ \A j \in Callers : j < k => sd[X(j)] # "idle"
  /\ sd' = [sd EXCEPT ![X(k)] = "want"]
  /\ xctx' = [xctx EXCEPT ![k] = c]
  /\ pending' = [pending EXCEPT ![k] = Busy]
  /\ UNCHANGED <<sdIdx, sdErr, xres>>
  /\ UNCHANGED <<gvars, lock, cvars, rvars, svars, qvars, kvars, avars, zvars>>

\* The deadline of that context passes.
Expire(k) ==
  /\ xctx[k] = "deadline" /\ sd[X(k)] # "done"
  /\ xctx' = [xctx EXCEPT ![k] = "expired"]
  /\ UNCHANGED <<sd, sdIdx, sdErr, pending, xres>>
  /\ UNCHANGED <<gvars, lock, cvars, rvars, svars, qvars, kvars, avars, zvars>>

\* ---------------------------------------------------------------- shutdown hooks
\* WithBeforeShutdown(hook) / WithAfterShutdown(hook): the hook is appended to
\* the list of its phase. Options are given at construction, so before the
\* manager is used. Hooks are named after their rank of registration.
Unused ==
  /\ newRes = Nil /\ hpc = <<"idle", 0>>
  /\ \A r \in Runs : rpc[r] = "idle"
  /\ \A h \in Invokers : sd[h] = "idle"

WithBeforeShutdown ==
  /\ Unused /\ Len(hooks.before) < MaxHooks /\ hooks.after = <<>>
  /\ hooks' = [hooks EXCEPT !.before = Append(@, Len(@) + 1)]
  /\ UNCHANGED <<hpc, ran, herr, hres, tvars>>
  /\ UNCHANGED <<gvars, lock, cvars, rvars, svars, qvars, dvars, kvars, avars, yvars, sock>>

WithAfterShutdown ==
  /\ Unused /\ Len(hooks.after) < MaxHooks
  /\ hooks' = [hooks EXCEPT !.after = Append(@, Len(@) + 1)]
  /\ UNCHANGED <<hpc, ran, herr, hres, tvars>>
  /\ UNCHANGED <<gvars, lock, cvars, rvars, svars, qvars, dvars, kvars, avars, yvars, sock>>

\* Shutdown(ctx) called from outside on a manager with hooks: it starts with
\* the before-shutdown phase, outside the lock.
ShutdownHooksCall(k, c) ==
  /\ newRes = Nil /\ hpc = <<"idle", 0>>
  /\ sd[X(k)] = "idle" /\ \A j \in Callers : j < k => sd[X(j)] # "idle"
  /\ hpc' = <<"before", k>>
  /\ sd' = [sd EXCEPT ![X(k)] = "hooks"]
  /\ xctx' = [xctx EXCEPT ![k] = c]
  /\ pending' = [pending EXCEPT ![k] = Busy]
  /\ UNCHANGED <<sdIdx, sdErr, xres>>
  /\ UNCHANGED <<hooks, ran, herr, hres, tvars>>
  /\ UNCHANGED <<gvars, lock, cvars, rvars, svars, qvars, kvars, avars, yvars, sock>>

\* The hook of a phase that runs once `done` hooks of that phase have run:
\* registration order.
NextHook(phase, done) == hooks[phase][done + 1]

\* Variant of BeforeShutdownHook: a hook that fails ends Shutdown with its
\* error.
BeforeShutdownHookFatal(k, e) ==
  /\ hpc = <<"before", k>> /\ Len(ran) < Len(hooks.before)
  /\ LET hook == <<"before", NextHook("before", Len(ran))>> IN
       /\ ran' = Append(ran, hook)
       /\ herr' = IF e # Nil THEN herr \cup {hook} ELSE herr
       /\ IF e # Nil
            THEN /\ hpc' = <<"done", k>>
                 /\ hres' = <<[err |-> Nil, hooks |-> herr']>>
            ELSE UNCHANGED <<hpc, hres>>
  /\ UNCHANGED <<hooks, tvars>>
  /\ UNCHANGED <<gvars, lock, cvars, rvars, svars, qvars, dvars, kvars, avars, yvars, sock>>

\* One before-shutdown hook runs and returns e; a failure is recorded and the
\* phase goes on.
BeforeShutdownHook(k, e) ==
  /\ hpc = <<"before", k>> /\ Len(ran) < Len(hooks.before)
  /\ LET hook == <<"before", NextHook("before", Len(ran))>> IN
       /\ ran' = Append(ran, hook)
       /\ herr' = IF e # Nil THEN herr \cup {hook} ELSE herr
  /\ UNCHANGED <<hooks, hpc, hres, tvars>>
  /\ UNCHANGED <<gvars, lock, cvars, rvars, svars, qvars, dvars, kvars, avars, yvars, sock>>

\* Every before-shutdown hook has run: the loop over the servers is next.
BeforeShutdownDone(k) ==
  /\ hpc = <<"before", k>> /\ Len(ran) = Len(hooks.before)
  /\ hpc' = <<"servers", k>>
  /\ sd' = [sd EXCEPT ![X(k)] = "want"]
  /\ UNCHANGED <<sdIdx, sdErr, pending, xctx, xres>>
  /\ UNCHANGED <<hooks, ran, herr, hres, tvars>>
  /\ UNCHANGED <<gvars, lock, cvars, rvars, svars, qvars, kvars, avars, yvars, sock>>

\* Variant of AfterShutdownHook: the after-shutdown phase does not wait for
\* the loop over the servers.
AfterShutdownHookEarly(k, e) ==
  /\ hpc = <<"servers", k>>
  /\ Len(ran) < Len(hooks.before) + Len(hooks.after)
  /\ LET hook == <<"after", NextHook("after", Len(ran) - Len(hooks.before))>> IN
       /\ ran' = Append(ran, hook)
       /\ herr' = IF e # Nil THEN herr \cup {hook} ELSE herr
  /\ UNCHANGED <<hooks, hpc, hres, tvars>>
  /\ UNCHANGED <<gvars, lock, cvars, rvars, svars, qvars, dvars, kvars, avars, yvars, sock>>

\* The loop over the servers has ended: one after-shutdown hook runs and
\* returns e.
AfterShutdownHook(k, e) ==
  /\ hpc = <<"servers", k>> /\ sd[X(k)] = "done"
  /\ Len(ran) < Len(hooks.before) + Len(hooks.after)
  /\ LET hook == <<"after", NextHook("after", Len(ran) - Len(hooks.before))>> IN
       /\ ran' = Append(ran, hook)
       /\ herr' = IF e # Nil THEN herr \cup {hook} ELSE herr
  /\ UNCHANGED <<hooks, hpc, hres, tvars>>
  /\ UNCHANGED <<gvars, lock, cvars, rvars, svars, qvars, dvars, kvars, avars, yvars, sock>>

\* Shutdown returns: the error of the loop over the servers together with the
\* hooks that failed (nil when there is neither).
ShutdownHooksReturn(k) ==
  /\ hpc = <<"servers", k>> /\ sd[X(k)] = "done"
  /\ Len(ran) = Len(hooks.before) + Len(hooks.after)
  /\ hpc' = <<"done", k>>
  /\ hres' = <<[err |-> xres[k], hooks |-> herr]>>
  /\ UNCHANGED <<hooks, ran, herr, tvars>>
  /\ UNCHANGED <<gvars, lock, cvars, rvars, svars, qvars, dvars, kvars, avars, yvars, sock>>

\* ---------------------------------------------------------------- server timeouts
\* WithServerTimeouts(readTimeout, writeTimeout, idleTimeout): the three
\* durations are stored as given, zero meaning "not set".
WithServerTimeouts(rd, wr, id) ==
  /\ Unused /\ built = <<>>
  /\ timeouts' = [read |-> rd, write |-> wr, idle |-> id]
  /\ UNCHANGED <<built, hvars>>
  /\ UNCHANGED <<gvars, lock, cvars, rvars, svars, qvars, dvars, kvars, avars, yvars, sock>>

\* Variant of serverTimeout: a timeout left unset stays zero.
serverTimeoutRaw(configured, default) == configured

\* The timeout a new server gets: the configured one unless it is zero.
serverTimeout(configured, default) ==
  IF configured # 0 THEN configured ELSE default

\* The manager builds an http.Server for a serve function.
buildHTTPServer ==
  /\ newRes = Nil /\ Len(built) < MaxServes
  /\ built' = Append(built,
       [ReadTimeout |-> serverTimeout(timeouts.read, DefaultReadTimeout),
        WriteTimeout |-> serverTimeout(timeouts.write, DefaultWriteTimeout),
        IdleTimeout |-> serverTimeout(timeouts.idle, DefaultIdleTimeout),
        ReadHeaderTimeout |-> DefaultReadHeaderTimeout])
  /\ UNCHANGED <<timeouts, hvars>>
  /\ UNCHANGED <<gvars, lock, cvars, rvars, svars, qvars, dvars, kvars, avars, yvars, sock>>

\* ---------------------------------------------------------------- Start / Stop
\* Variant of Start: g.started is not consulted.
StartUnguarded ==
  /\ lock = Free
  /\ \E r \in Runs :
       /\ FreshRun(r)
       /\ err' = r /\ stop' = r /\ started' = r
       /\ rpc' = [rpc EXCEPT ![r] = "ensure"]
       /\ rkind' = [rkind EXCEPT ![r] = "start"]
       /\ afterClose' = [afterClose EXCEPT ![r] = \E k \in Closers : cpc[k] = "done"]
       /\ startRes' = Nil
       /\ UNCHANGED <<ctx, egErr, rres, startedDone>>
  /\ UNCHANGED <<lock, cvars, svars, qvars, dvars, kvars>>
  /\ UNCHANGED <<cpc, cleaned, applied, injected, nvars, sock, pvars>>

\* Start, under the lock: ErrAlreadyStarted when g.started is set; otherwise a
\* new error channel, two contexts and the goroutine that runs RunWithContext.
Start ==
  /\ lock = Free
  /\ IF started # 0
       THEN /\ startRes' = ErrAlreadyStarted
            /\ UNCHANGED <<gvars, rvars, afterClose>>
       ELSE \E r \in Runs :
            /\ FreshRun(r)
            /\ err' = r /\ stop' = r /\ started' = r
            /\ rpc' = [rpc EXCEPT ![r] = "ensure"]
            /\ rkind' = [rkind EXCEPT ![r] = "start"]
            /\ afterClose' = [afterClose EXCEPT ![r] = \E k \in Closers : cpc[k] = "done"]
            /\ startRes' = Nil
            /\ UNCHANGED <<ctx, egErr, rres, startedDone>>
  /\ UNCHANGED <<lock, cvars, svars, qvars, dvars, kvars>>
  /\ UNCHANGED <<cpc, cleaned, applied, injected, nvars, sock, pvars>>

\* The goroutine of Start executes g.err <- err: it reads the field g.err,
\* without the lock, when it reaches the statement, and then blocks in the
\* send on the channel it read.
SendEval(r) ==
  /\ rpc[r] = "send"
  /\ rpc' = [rpc EXCEPT ![r] = "sending"]
  /\ sch' = [sch EXCEPT ![r] = err]
  /\ UNCHANGED <<rkind, ctx, egErr, rres, startedDone, kpc, kstarted, kstop, kch, kerr, kres>>
  /\ UNCHANGED <<gvars, lock, cvars, svars, qvars, dvars, avars, zvars>>

\* The send completes when a Stop receives on that channel.
SendErr(r, c) ==
  /\ rpc[r] = "sending" /\ kpc[c] = "recv" /\ kch[c] = sch[r]
  /\ rpc' = [rpc EXCEPT ![r] = "exited"]
  /\ kerr' = [kerr EXCEPT ![c] = rres[r]]
  /\ kpc' = [kpc EXCEPT ![c] = "await"]
  /\ UNCHANGED <<rkind, ctx, egErr, rres, startedDone, kstarted, kstop, kch, kres, sch>>
  /\ UNCHANGED <<gvars, lock, cvars, svars, qvars, dvars, avars, zvars>>

\* Variant of resetStartedState: Stop on a manager that is not started
\* reports success.
resetStartedStateNil(c) ==
  /\ kpc[c] = "idle" /\ \A j \in Stoppers : j < c => kpc[j] # "idle"
  /\ lock = Free
  /\ IF started = 0
       THEN /\ kres' = [kres EXCEPT ![c] = Nil]
            /\ kpc' = [kpc EXCEPT ![c] = "done"]
            /\ UNCHANGED <<gvars, kstarted, kstop, kch>>
       ELSE /\ kstarted' = [kstarted EXCEPT ![c] = started]
            /\ kstop' = [kstop EXCEPT ![c] = stop]
            /\ kch' = [kch EXCEPT ![c] = err]
            /\ started' = 0 /\ stop' = 0 /\ err' = err
            /\ kpc' = [kpc EXCEPT ![c] = "cancel"]
            /\ kres' = kres
  /\ UNCHANGED <<kerr, sch>>
  /\ UNCHANGED <<lock, cvars, rvars, svars, qvars, dvars, avars, zvars>>

\* resetStartedState, under the lock.
resetStartedState(c) ==
  /\ kpc[c] = "idle" /\ \A j \in Stoppers : j < c => kpc[j] # "idle"
  /\ lock = Free
  /\ IF started = 0
       THEN /\ kres' = [kres EXCEPT ![c] = ErrNotStarted]
            /\ kpc' = [kpc EXCEPT ![c] = "done"]
            /\ UNCHANGED <<gvars, kstarted, kstop, kch>>
       ELSE /\ kstarted' = [kstarted EXCEPT ![c] = started]
            /\ kstop' = [kstop EXCEPT ![c] = stop]
            /\ kch' = [kch EXCEPT ![c] = err]
            /\ started' = 0 /\ stop' = 0 /\ err' = err
            /\ kpc' = [kpc EXCEPT ![c] = "cancel"]
            /\ kres' = kres
  /\ UNCHANGED <<kerr, sch>>
  /\ UNCHANGED <<lock, cvars, rvars, svars, qvars, dvars, avars, zvars>>

\* stop(): cancels the context the background run was given.
StopCancel(c) ==
  /\ kpc[c] = "cancel"
  /\ ctx' = [ctx EXCEPT ![kstop[c]] = IF @ = "live" THEN "cancelled" ELSE @]
  /\ kpc' = [kpc EXCEPT ![c] = "recv"]
  /\ UNCHANGED <<rpc, rkind, egErr, rres, startedDone, kstarted, kstop, kch, kerr, kres, sch>>
  /\ UNCHANGED <<gvars, lock, cvars, svars, qvars, dvars, avars, zvars>>

\* Variant of StopResult: context.Canceled is not translated.
StopResultRaw(e) == e

\* What Stop returns once it holds the run's error and ctxStarted is done.
StopResult(e) == IF e # Canceled THEN e ELSE Nil

\* Variant of StopAwait: Stop does not wait for ctxStarted.
StopAwaitNoWait(c) ==
  /\ kpc[c] = "await"
  /\ kres' = [kres EXCEPT ![c] = StopResult(kerr[c])]
  /\ kpc' = [kpc EXCEPT ![c] = "done"]
  /\ UNCHANGED <<kstarted, kstop, kch, kerr, sch>>
  /\ UNCHANGED <<gvars, lock, cvars, rvars, svars, qvars, dvars, avars, zvars>>

\* <-started.Done(), then the result.
StopAwait(c) ==
  /\ kpc[c] = "await" /\ startedDone[kstarted[c]]
  /\ kres' = [kres EXCEPT ![c] = StopResult(kerr[c])]
  /\ kpc' = [kpc EXCEPT ![c] = "done"]
  /\ UNCHANGED <<kstarted, kstop, kch, kerr, sch>>
  /\ UNCHANGED <<gvars, lock, cvars, rvars, svars, qvars, dvars, avars, zvars>>

\* ---------------------------------------------------------------- Close
\* Close is called; it starts with _ = g.Shutdown(context.Background()).
CloseCall(k) ==
  /\ newRes = Nil
  /\ cpc[k] = "idle" /\ \A j \in Closers : j < k => cpc[j] # "idle"
  /\ cpc' = [cpc EXCEPT ![k] = "shutdown"]
  /\ sd' = [sd EXCEPT ![C(k)] = "want"]
  /\ UNCHANGED <<sdIdx, sdErr, pending, xctx, xres>>
  /\ UNCHANGED <<cleaned, applied, injected, afterClose, nvars, sock, pvars>>
  /\ UNCHANGED <<gvars, lock, cvars, rvars, svars, qvars, kvars, avars>>

\* How many times strategy n stands in g.cleanup.
Registered(n) == Cardinality({j \in 1..Len(cleanup) : cleanup[j] = n})

\* Variant of Cleanup: g.cleanup is not cleared.
CleanupKeep ==
  /\ cleaned' = [n \in Strategies |-> cleaned[n] + Registered(n)]
  /\ sock' = sock \ {cleanup[j] : j \in 1..Len(cleanup)}
  /\ cleanup' = cleanup
  /\ listenAndServe' = <<>>
  /\ servers' = <<>>

\* The rest of Close, under the lock: every cleanup of g.cleanup is called, then
\* the three collections are set to nil.
Cleanup ==
  /\ cleaned' = [n \in Strategies |-> cleaned[n] + Registered(n)]
  /\ sock' = sock \ {cleanup[j] : j \in 1..Len(cleanup)}
  /\ cleanup' = <<>>
  /\ listenAndServe' = <<>>
  /\ servers' = <<>>

\* Variant of CloseCleanup: the cleanups do not wait for Close's Shutdown.
CloseCleanupEarly(k) ==
  /\ cpc[k] = "shutdown"
  /\ lock = Free
  /\ Cleanup
  /\ cpc' = [cpc EXCEPT ![k] = "done"]
  /\ UNCHANGED <<applied, injected, afterClose, nvars, pvars>>
  /\ UNCHANGED <<gvars, lock, rvars, svars, qvars, dvars, kvars, avars>>

CloseCleanup(k) ==
  /\ cpc[k] = "shutdown" /\ sd[C(k)] = "done"
  /\ lock = Free
  /\ Cleanup
  /\ cpc' = [cpc EXCEPT ![k] = "done"]
  /\ UNCHANGED <<applied, injected, afterClose, nvars, pvars>>
  /\ UNCHANGED <<gvars, lock, rvars, svars, qvars, dvars, kvars, avars>>

\* ---------------------------------------------------------------- New
\* Variant of apply: New returns the error without calling Close.
applyNoClose ==
  /\ newRes = None /\ opts # <<>>
  /\ IF Head(opts).fails
       THEN /\ newRes' = OptionErr(Head(opts))
            /\ UNCHANGED <<opts, applied, cvars, cleaned, sock>>
       ELSE /\ listenAndServe' = Append(listenAndServe, Head(opts).kind)
            /\ cleanup' = Append(cleanup, applied + 1)
            /\ applied' = applied + 1
            /\ sock' = IF Head(opts).kind = "unix" THEN sock \cup {applied + 1} ELSE sock
            /\ opts' = Tail(opts)
            /\ UNCHANGED <<servers, cleaned, newRes>>
  /\ UNCHANGED <<cpc, injected, afterClose, pvars>>
  /\ UNCHANGED <<gvars, lock, rvars, svars, qvars, dvars, kvars, avars>>

\* One turn of the loop of New: g.apply(o). A failing option adds nothing:
\* New calls g.Close(), whose Shutdown finds no server, and returns the error.
apply ==
  /\ newRes = None /\ opts # <<>>
  /\ IF Head(opts).fails
       THEN /\ Cleanup
            /\ newRes' = OptionErr(Head(opts))
            /\ UNCHANGED <<opts, applied>>
       ELSE /\ listenAndServe' = Append(listenAndServe, Head(opts).kind)
            /\ cleanup' = Append(cleanup, applied + 1)
            /\ applied' = applied + 1
            /\ sock' = IF Head(opts).kind = "unix" THEN sock \cup {applied + 1} ELSE sock
            /\ opts' = Tail(opts)
            /\ UNCHANGED <<servers, cleaned, newRes>>
  /\ UNCHANGED <<cpc, injected, afterClose, pvars>>
  /\ UNCHANGED <<gvars, lock, rvars, svars, qvars, dvars, kvars, avars>>

\* return g, nil
NewReturn ==
  /\ newRes = None /\ opts = <<>>
  /\ newRes' = Nil
  /\ UNCHANGED <<opts, cpc, cleaned, applied, injected, afterClose, sock, pvars>>
  /\ UNCHANGED <<gvars, lock, cvars, rvars, svars, qvars, dvars, kvars, avars>>

\* ---------------------------------------------------------------- specifications
\* Steps of the manager's own goroutines, common to every scenario.
Lifecycle ==
  \/ \E r \in Runs : ensureAtLeastDefaultServer(r)
  \/ \E r \in Runs : RunLaunch(r)
  \/ \E r \in Runs : WaitReturn(r)
  \/ \E r \in Runs : WaitShutdown(r)
  \/ \E r \in Runs : Watcher(r)
  \/ \E r \in Runs, i \in Slots : ServeRegister(r, i)
  \/ \E r \in Runs, i \in Slots : ServeRegisterAgain(r, i)
  \/ \E r \in Runs, i \in Slots : ServeListen(r, i)
  \/ \E r \in Runs, i \in Slots : ServeClosed(r, i)
  \/ \E h \in Invokers : ShutdownEnter(h)

\* Start / Stop cycles: callers of Start and Stop, concurrently.
NextCycle ==
  \/ Lifecycle
  \/ Start
  \/ \E c \in Stoppers : resetStartedState(c)
  \/ \E c \in Stoppers : StopCancel(c)
  \/ \E c \in Stoppers : StopAwait(c)
  \/ \E r \in Runs : SendEval(r)
  \/ \E r \in Runs, c \in Stoppers : SendErr(r, c)

SpecCycle == Init /\ [][NextCycle]_vars

\* RunWithContext with caller-owned contexts, Shutdown called from outside,
\* and requests in flight.
NextRun ==
  \/ Lifecycle
  \/ \E r \in Runs : RunCall(r)
  \/ \E r \in Runs : CancelCtx(r)
  \/ \E r \in Runs, i \in Slots : RequestArrive(r, i)
  \/ \E r \in Runs, i \in Slots : RequestComplete(r, i)
  \/ \E k \in Callers, c \in {"background", "deadline"} : ShutdownCall(k, c)
  \/ \E k \in Callers : Expire(k)
  \/ \E h \in Invokers : ShutdownDrain(h)

SpecRun == Init /\ [][NextRun]_vars

\* RunWithContext and Close, concurrently.
NextClose ==
  \/ Lifecycle
  \/ \E r \in Runs : RunCall(r)
  \/ \E k \in Closers : CloseCall(k)
  \/ \E k \in Closers : CloseCleanup(k)

SpecClose == Init /\ [][NextClose]_vars

\* Run(addr) calls, which apply a strategy before they run, and one Close
\* call, on a manager made by New without options.
InitApply ==
  /\ Zero
  /\ listenAndServe = <<>> /\ cleanup = <<>>
  /\ applied = 0
  /\ opts = <<>> /\ newRes = Nil

NextApply ==
  \/ Lifecycle
  \/ \E r \in Runs : RunAddrCall(r)
  \/ \E r \in Runs, k \in {"addr", "tls"} : ApplyServe(r, k)
  \/ \E r \in Runs : ApplyCleanup(r)
  \/ CloseCall(1)
  \/ CloseCleanup(1)

SpecApply == InitApply /\ [][NextApply]_vars

\* New applying its options, then Close calls on the manager it returned.
NextNew ==
  \/ apply
  \/ NewReturn
  \/ \E k \in Closers : CloseCall(k)
  \/ \E h \in Invokers : ShutdownEnter(h)
  \/ \E k \in Closers : CloseCleanup(k)

SpecNew == InitNew /\ [][NextNew]_vars

\* A manager made with WithUnix options (and WithTLS ones), then runs, a
\* Shutdown from outside and Close.
UnixLists ==
  {l \in OptionLists :
     /\ \E j \in 1..Len(l) : l[j].kind = "unix"
     /\ \A j \in 1..Len(l) : l[j].kind \in {"unix", "tls"}}
InitUnix ==
  /\ Zero
  /\ listenAndServe = <<>> /\ cleanup = <<>>
  /\ applied = 0
  /\ opts \in UnixLists /\ newRes = None

NextUnix ==
  \/ apply
  \/ NewReturn
  \/ Lifecycle
  \/ \E r \in Runs : RunCall(r)
  \/ \E k \in Callers : ShutdownCall(k, "background")
  \/ \E k \in Closers : CloseCall(k)
  \/ \E k \in Closers : CloseCleanup(k)

SpecUnix == InitUnix /\ [][NextUnix]_vars

\* A manager with shutdown hooks: one run with requests in flight, and a
\* Shutdown called from outside, with or without a deadline.
NextHooks ==
  \/ WithBeforeShutdown
  \/ WithAfterShutdown
  \/ Lifecycle
  \/ RunCall(1)
  \/ \E r \in Runs, i \in Slots : RequestArrive(r, i)
  \/ \E r \in Runs, i \in Slots : RequestComplete(r, i)
  \/ \E k \in Callers, c \in {"background", "deadline"} : ShutdownHooksCall(k, c)
  \/ \E k \in Callers : Expire(k)
  \/ \E h \in Invokers : ShutdownDrain(h)
  \/ \E k \in Callers, e \in {Nil, ErrHook} : BeforeShutdownHook(k, e)
  \/ \E k \in Callers : BeforeShutdownDone(k)
  \/ \E k \in Callers, e \in {Nil, ErrHook} : AfterShutdownHook(k, e)
  \/ \E k \in Callers : ShutdownHooksReturn(k)

SpecHooks == Init /\ [][NextHooks]_vars

\* The servers built by a manager given any timeouts.
NextTimeouts ==
  \/ \E rd \in 0..MaxTimeout, wr \in 0..MaxTimeout, id \in 0..MaxTimeout :
       WithServerTimeouts(rd, wr, id)
  \/ buildHTTPServer

SpecTimeouts == Init /\ [][NextTimeouts]_vars

\* ---------------------------------------------------------------- fairness
\* The Go scheduler runs every runnable goroutine, so a step of the manager's
\* goroutines, or of a Stop that is under way, that stays possible is taken.
\* Nothing obliges a caller to call Start, Stop, RunWithContext or Shutdown,
\* nor to cancel a context.
StepCycle ==
  \/ Lifecycle
  \/ \E c \in Stoppers : StopCancel(c)
  \/ \E c \in Stoppers : StopAwait(c)
  \/ \E r \in Runs : SendEval(r)
  \/ \E r \in Runs, c \in Stoppers : SendErr(r, c)

FairCycle == SpecCycle /\ WF_vars(StepCycle)

\* Handlers terminate, so a request in flight completes.
StepRun ==
  \/ Lifecycle
  \/ \E r \in Runs, i \in Slots : RequestComplete(r, i)
  \/ \E h \in Invokers : ShutdownDrain(h)

FairRun == SpecRun /\ WF_vars(StepRun)

\* ---------------------------------------------------------------- properties
\* Every serve function run r launched is serving on a server the manager
\* tracks, and no Shutdown has touched it.
Tracked(r, i) == \E j \in 1..Len(servers) : servers[j] = Srv(r, i)
AllServing(r) ==
  /\ rpc[r] = "wait" /\ Launched(r) # {}
  /\ \A i \in Launched(r) : spc[r][i] = "serving" /\ ~shut[r][i] /\ Tracked(r, i)

\* C1: a Start issued while an earlier Start is outstanding returns
\* ErrAlreadyStarted, launches no run and leaves the lifecycle markers, the
\* collections and every goroutine as they were.
C1_StartWhileStarted ==
  [][(Start /\ started # 0) =>
       /\ startRes' = ErrAlreadyStarted
       /\ UNCHANGED <<gvars, lock, cvars, rvars, svars, qvars, dvars, kvars>>]_vars

C1_Witness == started # 0 /\ startRes = ErrAlreadyStarted

\* C2: a Stop issued while no Start is outstanding returns ErrNotStarted in
\* that one step (it waits for nothing), cancels no context and changes nothing
\* of the manager.
C2_StopNotStarted ==
  [][\A c \in Stoppers : (resetStartedState(c) /\ started = 0) =>
       /\ kres'[c] = ErrNotStarted /\ kpc'[c] = "done"
       /\ UNCHANGED <<gvars, lock, cvars, rvars, svars, qvars, dvars, avars, zvars>>]_vars

C2_Witness ==
  \E c \in Stoppers : kpc[c] = "done" /\ kres[c] = ErrNotStarted /\ started = 0

\* C3: in Start / Stop cycles whose listeners bind without error, every Start
\* on a manager that is not started returns nil and marks it started, and every
\* Stop that found it started returns nil: the context.Canceled its own
\* cancellation produces is not reported.
C3_CyclesReturnNil ==
  /\ []((\A r \in Runs : egErr[r] = Nil) =>
          \A c \in Stoppers :
            (kpc[c] = "done" /\ kres[c] # ErrNotStarted) => kres[c] = Nil)
  /\ [][(Start /\ started = 0) => (startRes' = Nil /\ started' # 0)]_vars

\* The second cycle: its listener served, Stop received context.Canceled and
\* returned nil.
C3_Witness ==
  /\ \A c \in Stoppers :
       kpc[c] = "done" /\ kstarted[c] = c /\ kerr[c] = Canceled /\ kres[c] = Nil
  /\ \A r \in Runs : sres[r][1] = ErrServerClosed /\ startedDone[r]
  /\ startRes = Nil

\* C4: once Stop has returned anything but ErrNotStarted, the RunWithContext
\* of the Start it stopped has returned and so has every serve function that
\* run launched.
C4_StopAfterRunReturned ==
  \A c \in Stoppers :
    (kpc[c] = "done" /\ kres[c] # ErrNotStarted) =>
      /\ rpc[kstarted[c]] \in {"send", "sending", "exited"}
      /\ \A i \in Launched(kstarted[c]) : spc[kstarted[c]][i] = "done"

\* A Stop that received the error of another run and still waited for its own.
C4_Witness ==
  \E c \in Stoppers :
    /\ kpc[c] = "done" /\ kres[c] # ErrNotStarted
    /\ rpc[kstarted[c]] \in {"send", "sending"}
    /\ Launched(kstarted[c]) # {}

\* C5: after a successful Start, a Stop that has begun eventually returns,
\* whenever it was issued; stated for the first Stop when no second Start is
\* ever made.
C5_StopEventuallyReturns ==
  <>(rpc[2] # "idle") \/ (kpc[1] = "cancel" ~> kpc[1] = "done")

\* C6: when the context of a RunWithContext is cancelled while all its servers
\* are serving, that run eventually returns context.Canceled; for the first
\* invocation and for every later one.
C6_CancelReturnsCanceled ==
  \A r \in Runs :
    (rkind[r] = "direct" /\ ctx[r] = "cancelled" /\ sd[W(r)] = "wait" /\ AllServing(r))
      ~> (rpc[r] = "returned" /\ rres[r] = Canceled)

\* A second invocation that served a request and returned context.Canceled
\* after the first one did.
C6_Witness ==
  /\ \A r \in Runs : rpc[r] = "returned" /\ rres[r] = Canceled /\ ctx[r] = "cancelled"
  /\ sres[2][1] = ErrServerClosed /\ accepted[2][1] > 0

\* C7: when Shutdown is called from outside while a RunWithContext is serving
\* and its context is not cancelled, its serve functions end with
\* http.ErrServerClosed and the run eventually returns nil, unless its context
\* is cancelled in the meantime.
C7_OutsideShutdownReturnsNil ==
  \A r \in Runs :
    (AllServing(r) /\ ctx[r] = "live" /\ \E k \in Callers : sd[X(k)] = "want")
      ~> \/ /\ rpc[r] = "returned" /\ rres[r] = Nil
            /\ \A i \in Launched(r) : sres[r][i] = ErrServerClosed
         \/ ctx[r] = "cancelled"

C7_Witness ==
  \E r \in Runs, k \in Callers :
    /\ sd[X(k)] = "done" /\ sd[W(r)] = "wait"
    /\ rpc[r] = "returned" /\ rres[r] = Nil /\ ctx[r] = "released"
    /\ Launched(r) # {}
    /\ \A i \in Launched(r) : sres[r][i] = ErrServerClosed /\ accepted[r][i] > 0

C9_WatcherContextFresh ==
  \A r \in Runs : sd[W(r)] = "drain" => ~InvokerCtxDone(W(r))

\* C10: once a serve function has returned an error other than
\* http.ErrServerClosed while a sibling is serving, the derived context of
\* the run is cancelled.
C10_ServeErrorCancels ==
  \A r \in Runs :
    (egErr[r] # Nil /\ \E i \in Launched(r) : spc[r][i] = "serving") => CtxDone(r)

\* C11: RunWithContext on a manager without any strategy adds exactly one
\* default address strategy before it launches anything and then launches
\* exactly one serve function; on a manager that has a strategy it adds none.
C11_DefaultInjection ==
  /\ [][\A r \in Runs : ensureAtLeastDefaultServer(r) =>
          /\ Launched(r) = {}
          /\ IF Len(listenAndServe) = 0
               THEN /\ listenAndServe' = <<"addr">> /\ Len(cleanup') = 1
                    /\ injected' = injected + 1
               ELSE UNCHANGED <<listenAndServe, cleanup, injected>>]_vars
  /\ [](\A r \in Runs :
          (applied = 0 /\ rpc[r] \notin {"idle", "ensure", "launch"}) =>
            injected = 1 /\ Cardinality(Launched(r)) = 1)

\* Two runs on a manager made without options: one default, one serve
\* function each.
C11_Witness ==
  /\ applied = 0 /\ injected = 1 /\ listenAndServe = <<"addr">>
  /\ \A r \in Runs : spc[r][1] = "serving" /\ Cardinality(Launched(r)) = 1

\* C12: over the life of a manager the default strategy is injected at most
\* once, and never when an option was applied to it, even one that a Close
\* discarded since.
C12_DefaultAtMostOnce == injected <= 1 /\ (applied > 0 => injected = 0)

\* C13: a RunWithContext invoked after a Close returned launches no serve
\* function.
C13_NoRunAfterClose == \A r \in Runs : afterClose[r] => Launched(r) = {}

\* C14: Shutdown goes through every tracked server whatever the earlier ones
\* returned, and its result is nil when every srv.Shutdown succeeded and else
\* the error of the last one that failed: the error starts as nil, each
\* srv.Shutdown that fails replaces it, one that succeeds leaves it, and when
\* Shutdown returns every tracked server has been shut down.
C14_ShutdownLastError ==
  [][\A h \in Invokers :
       /\ (sd[h] # "done" /\ sd'[h] = "done") =>
            \A j \in 1..Len(servers) : shut'[servers[j][1]][servers[j][2]]
       /\ (sd[h] \in {"want", "wait", "drain"} /\ sd'[h] \in {"drain", "done"}
             /\ (sd[h] = "drain" => (sd'[h] = "done" \/ sdIdx' # sdIdx))) =>
            LET e == IF sd[h] # "drain" THEN Nil
                     ELSE IF inflight[servers[sdIdx][1]][servers[sdIdx][2]] > 0
                       THEN InvokerCtxErr(h) ELSE sdErr
            IN  IF sd'[h] = "drain" THEN sdErr' = e
                ELSE /\ h[1] = "caller" => xres'[h[2]] = e
                     /\ h[1] = "run" => rres'[h[2]] = e]_vars

\* An outside Shutdown whose deadline passed while one server had a request in
\* flight: it went on to the other server and returned the deadline error.
C14_Witness ==
  \E k \in Callers, s \in Runs \X Slots, t \in Runs \X Slots :
    /\ sd[X(k)] = "done" /\ xres[k] = DeadlineExceeded
    /\ s # t /\ shut[s[1]][s[2]] /\ shut[t[1]][t[2]]
    /\ inflight[s[1]][s[2]] > 0 /\ inflight[t[1]][t[2]] = 0
    /\ \A r \in Runs : ctx[r] = "live"

\* C15: when a Shutdown returns, g.servers is empty; a Shutdown that finds it
\* empty shuts no server down and returns nil.
C15_ShutdownIdempotent ==
  [][\A h \in Invokers :
       (sd[h] # "done" /\ sd'[h] = "done") =>
         /\ servers' = <<>>
         /\ servers = <<>> =>
              /\ shut' = shut
              /\ h[1] = "caller" => xres'[h[2]] = Nil
              /\ h[1] = "run" => rres'[h[2]] = Nil]_vars

\* An outside Shutdown stopped the servers, then the final Shutdown of the run
\* found none and returned nil.
C15_Witness ==
  \E k \in Callers, r \in Runs :
    /\ sd[X(k)] = "done" /\ xres[k] = Nil
    /\ sd[R(r)] = "done" /\ rres[r] = Nil
    /\ \E i \in Launched(r) : sres[r][i] = ErrServerClosed
    /\ servers = <<>>

\* C16: no server stands twice in g.servers, so that each server gets one
\* srv.Shutdown call.
C16_TrackedOnce ==
  \A i \in 1..Len(servers), j \in 1..Len(servers) : servers[i] = servers[j] => i = j

\* C17: a Shutdown called from outside once RunWithContext has been invoked
\* makes that run return eventually, whatever the interleaving with the start
\* of its serve goroutines; stated for runs whose context is never cancelled
\* and whose serve functions never fail.
C17_ImmediateShutdown ==
  \/ <>(\E r \in Runs : egErr[r] # Nil \/ ctx[r] = "cancelled")
  \/ \A r \in Runs, k \in Callers :
       []((rpc[r] \in {"ensure", "launch", "wait"} /\ sd[X(k)] = "idle") =>
            [](sd[X(k)] = "want" => <>(rpc[r] = "returned")))

\* C18: over any number of Close calls the cleanup of every applied strategy
\* is invoked once at most, and exactly once as soon as it has left g.cleanup:
\* a later Close finds nothing to invoke.
C18_CleanupOnce ==
  \A n \in Strategies :
    /\ cleaned[n] <= 1 /\ Registered(n) <= 1
    /\ n <= applied + injected => (cleaned[n] = 1 <=> Registered(n) = 0)
    /\ n > applied + injected => (cleaned[n] = 0 /\ Registered(n) = 0)

\* Every Close has returned and each of the two options was cleaned up once.
C18_Witness ==
  /\ \A k \in Closers : cpc[k] = "done"
  /\ applied >= 2
  /\ \A n \in 1..applied : cleaned[n] = 1

\* C19: Close invokes cleanups only after its own Shutdown, which shut down
\* every server it found tracked, has returned; when Close returns the three
\* collections are empty.
C19_CloseOrder ==
  [][/\ \A k \in Closers :
          /\ (sd[C(k)] # "done" /\ sd'[C(k)] = "done") =>
               \A j \in 1..Len(servers) : shut'[servers[j][1]][servers[j][2]]
          /\ (cpc[k] # "done" /\ cpc'[k] = "done") =>
               /\ sd[C(k)] = "done"
               /\ servers' = <<>> /\ listenAndServe' = <<>> /\ cleanup' = <<>>
     /\ cleaned' # cleaned =>
          \E k \in Closers : sd[C(k)] = "done" /\ cpc[k] # "done" /\ cpc'[k] = "done"]_vars

\* Close on a running manager: its Shutdown stopped a serving server, then the
\* cleanups ran and the collections were emptied.
C19_Witness ==
  \E k \in Closers, r \in Runs :
    /\ cpc[k] = "done" /\ cleaned[1] = 1
    /\ \E i \in Launched(r) : sres[r][i] = ErrServerClosed
    /\ servers = <<>> /\ listenAndServe = <<>> /\ cleanup = <<>>
    /\ \A j \in Closers : j # k => cpc[j] = "idle"

\* C20: when applying an option fails, New returns that error and no manager:
\* the options after it are never applied, the cleanup of each option applied
\* before it has been invoked exactly once, and nothing is left registered.
C20_NewAborts ==
  /\ [](newRes = ErrApply =>
          /\ opts # <<>> /\ Head(opts).fails
          /\ \A n \in Strategies : cleaned[n] = (IF n <= applied THEN 1 ELSE 0)
          /\ servers = <<>> /\ listenAndServe = <<>> /\ cleanup = <<>>)
  /\ [][newRes = ErrApply => UNCHANGED vars]_vars
  /\ [][newRes' = ErrApply => UNCHANGED <<opts, applied>>]_vars

\* The second option failed after the first one was applied.
C20_Witness ==
  newRes = ErrApply /\ applied = 1 /\ cleaned[1] = 1 /\ Len(opts) = 1

\* C23: the lock is never held by an invoker that is inside a blocking
\* srv.Shutdown call, so that registrations, Start, Stop and Close are not
\* held up while a Shutdown drains requests in flight.
C23_LockFreeWhileDraining ==
  \A h \in Invokers : sd[h] = "drain" => lock # h

\* C24: a Shutdown whose deadline has expired is never left waiting for a
\* handler to finish: neither inside srv.Shutdown, nor behind another
\* invoker that holds the lock while it drains a request with a context that
\* is not done.
C24_DeadlineRespected ==
  \A k \in Callers :
    (xctx[k] = "expired" /\ sd[X(k)] = "want") =>
      ~ \E h \in Invokers :
          /\ lock = h /\ sd[h] = "drain" /\ ~InvokerCtxDone(h)
          /\ inflight[servers[sdIdx][1]][servers[sdIdx][2]] > 0

\* C25: a server leaves g.servers only shut down, by the Shutdown that
\* returns, and a server that was shut down never accepts a connection again
\* nor reopens its listener.
C25_NoAcceptAfterShutdown ==
  [][\A r \in Runs, i \in Slots :
       /\ (Tracked(r, i) /\ ~Tracked(r, i)') =>
            (shut'[r][i] /\ \E h \in Invokers : sd[h] # "done" /\ sd'[h] = "done")
       /\ shut[r][i] => (shut'[r][i] /\ accepted'[r][i] = accepted[r][i])]_vars

\* An outside Shutdown returned while the serve goroutine of a server it shut
\* down, which could take one more request, has not returned yet.
C25_Witness ==
  \E k \in Callers, r \in Runs, i \in Slots :
    /\ sd[X(k)] = "done" /\ servers = <<>>
    /\ spc[r][i] = "serving" /\ shut[r][i] /\ accepted[r][i] < MaxReq

\* C30: RunWithContext launches every serve function of g.listenAndServe, and
\* whatever it returns (nil, the context's error, a serve error) it returns
\* only once every serve function it launched has returned.
C30_RunWaitsForAll ==
  \A r \in Runs :
    /\ rpc[r] \notin {"idle", "ensure", "launch"} =>
         Launched(r) = 1..Len(listenAndServe)
    /\ rres[r] # None => \A i \in Launched(r) : spc[r][i] = "done"

\* A run of two serve functions returned the error of the one that failed,
\* after the other was shut down and returned too.
C30_Witness ==
  \E r \in Runs :
    /\ rres[r] = ErrServe /\ Cardinality(Launched(r)) = 2
    /\ \E i \in Launched(r) : sres[r][i] = ErrServerClosed
    /\ \E i \in Launched(r) : sres[r][i] = ErrServe

\* C29: g.servers, g.listenAndServe and g.cleanup grow only in a step that
\* applies a strategy (an option of New, or the default RunWithContext
\* injects), and the three are emptied together by Close alone; in
\* particular no serve function adds to any of them.
C29_CollectionsFrame ==
  [][/\ (\/ Len(servers') > Len(servers)
         \/ Len(listenAndServe') > Len(listenAndServe)
         \/ Len(cleanup') > Len(cleanup)) =>
          applied' + injected' > applied + injected
     /\ (/\ <<listenAndServe, cleanup>> # <<listenAndServe', cleanup'>>
         /\ applied' + injected' = applied + injected) =>
          /\ servers' = <<>> /\ listenAndServe' = <<>> /\ cleanup' = <<>>
          /\ \E k \in Closers : cpc[k] # "done" /\ cpc'[k] = "done"]_vars

\* C27: applying WithServer(nil) fails with the error "nil http server": New
\* returns that error, the option adds no serve function, no cleanup and no
\* server, and nothing is left registered.
C27_NilServerRejected ==
  /\ [][(newRes = None /\ opts # <<>> /\ Head(opts).kind = "server"
           /\ Head(opts).srv = NilServer) =>
          /\ newRes' = ErrNilServer
          /\ applied' = applied
          /\ servers' = <<>> /\ listenAndServe' = <<>> /\ cleanup' = <<>>]_vars
  /\ [](newRes = ErrNilServer =>
          (opts # <<>> /\ Head(opts) = WithServer(NilServer)))

\* New(WithAddr, WithServer(nil)): the nil server was refused after the first
\* option had been applied.
C27_Witness ==
  /\ newRes = ErrNilServer /\ applied = 1 /\ Len(opts) = 1
  /\ servers = <<>> /\ listenAndServe = <<>> /\ cleanup = <<>>

\* The strategies of g.listenAndServe that WithUnix made.
UnixApplied == {cleanup[i] : i \in {j \in 1..Len(listenAndServe) : listenAndServe[j] = "unix"}}

\* C26 as stated: the socket file of every WithUnix strategy exists from the
\* moment the strategy is applied until Close, whatever Shutdown does (serve
\* functions that fail on their own set aside); a bind failure makes New
\* fail, and after Close no socket file is left.
C26_FileUntilClose ==
  /\ newRes = ErrApply => sock = {}
  /\ (\E k \in Closers : cpc[k] = "done") => sock = {}
  /\ (/\ newRes # ErrApply /\ \A k \in Closers : cpc[k] # "done"
      /\ \A r \in Runs, i \in Slots : sres[r][i] \notin ServeErrs) => sock = UnixApplied

\* C26 amended: the socket file exists from the moment the strategy is
\* applied, also after a Shutdown when no serve function has served on the
\* listener yet; it is gone as soon as a server serving on the listener is
\* shut down or its Serve returns, and after Close; a bind failure makes New
\* fail with no file left.
C26_FileUntilListenerClosed ==
  /\ newRes = ErrApply => sock = {}
  /\ (\E k \in Closers : cpc[k] = "done") => sock = {}
  /\ sock \subseteq UnixApplied
  /\ (\A r \in Runs : rpc[r] = "idle") /\ (\A k \in Closers : cpc[k] # "done")
       /\ newRes # ErrApply => sock = UnixApplied
  /\ \A r \in Runs, i \in 1..Len(cleanup) :
       (spc[r][i] = "done" \/ (spc[r][i] = "serving" /\ shut[r][i])) =>
         cleanup[i] \notin sock

\* Shutdown alone, no Close: the server that served on the Unix listener was
\* shut down and the socket file is gone.
C26_Witness ==
  \E k \in Callers, r \in Runs, i \in Slots :
    /\ sd[X(k)] = "done" /\ \A c \in Closers : cpc[c] = "idle"
    /\ i <= Len(listenAndServe) /\ listenAndServe[i] = "unix"
    /\ sres[r][i] = ErrServerClosed /\ sock = {}

C31_FirstErrorWins ==
  /\ [][\A r \in Runs :
          /\ egErr[r] # Nil => egErr'[r] = egErr[r]
          /\ \A i \in Slots :
               (egErr[r] = Nil /\ sres[r][i] = None /\ sres'[r][i] \in ServeErrs)
                 => egErr'[r] = sres'[r][i]]_vars
  /\ [](\A r \in Runs : (rres[r] # None /\ egErr[r] # Nil) => rres[r] = egErr[r])

\* Both serve functions of a run failed, the second one first; the context
\* was cancelled before the run returned, and the run returned the error of
\* the second.
C31_Witness ==
  \E r \in Runs :
    /\ rres[r] = ErrServeNext /\ sres[r][1] = ErrServe /\ sres[r][2] = ErrServeNext
    /\ ctx[r] = "cancelled"

\* The run launched by Start r failed on its own and its goroutine is blocked
\* in the send of that error, and no Stop has been called since that Start.
EndedOnItsOwn(r) ==
  started = r /\ rpc[r] = "sending" /\ rres[r] \in ServeErrs

\* C32: when the background run launched by Start has ended on its own with
\* a serve error before Stop is called, the manager stays started until a Stop
\* is called, a Start in between returns ErrAlreadyStarted, and the Stop that
\* takes that run over returns, with exactly that error.
C32_TerminalErrorKept ==
  /\ [][\A r \in Runs :
          EndedOnItsOwn(r) =>
            /\ started' = r \/ \E c \in Stoppers : kpc[c] = "idle" /\ kstarted'[c] = r
            /\ startRes' # startRes => startRes' = ErrAlreadyStarted]_vars
  /\ \A r \in Runs, c \in Stoppers :
       [](EndedOnItsOwn(r) =>
            []((kpc[c] # "idle" /\ kstarted[c] = r) =>
                 <>(kpc[c] = "done" /\ kres[c] = rres[r])))

\* The runs launched by Start whose RunWithContext has not returned yet.
ActiveRuns ==
  {r \in Runs : rkind[r] = "start" /\ rpc[r] \in {"ensure", "launch", "wait"}}

\* C33: at most one background run launched by Start is active at any time,
\* whatever the interleaving of Start and Stop: no Start launches a run while
\* the run of the previous Start is still inside RunWithContext.
C33_OneActiveRun == Cardinality(ActiveRuns) <= 1

\* C34: the goroutine of a Start only ever sends its run's result on the
\* error channel that same Start created, also when another Start was issued
\* after a Stop cleared the markers and before the old run completed; so each
\* Stop receives the outcome of the run it stopped.
C34_OwnChannel ==
  /\ \A r \in Runs : sch[r] \in {0, r}
  /\ \A c \in Stoppers :
       kpc[c] \in {"await", "done"} /\ kstarted[c] # 0 => kerr[c] = rres[kstarted[c]]

\* C35: of the Stop calls racing after a single Start exactly one takes the
\* run over and the others return ErrNotStarted; a Start on a stopped manager
\* returns nil and one on a started manager ErrAlreadyStarted; and every Stop
\* that was called returns.
C35_RacingCalls ==
  /\ [](\A c, k \in Stoppers :
          /\ (kstarted[c] # 0 /\ kstarted[c] = kstarted[k]) => c = k
          /\ (kpc[c] = "done" /\ kstarted[c] = 0) => kres[c] = ErrNotStarted)
  /\ [][/\ (started = 0 /\ started' # 0) => startRes' = Nil
        /\ (started # 0 /\ startRes' # startRes) =>
             (startRes' = ErrAlreadyStarted /\ started' = started)]_vars
  /\ \/ <>(rpc[2] # "idle")
     \/ \A c \in Stoppers : [](kpc[c] # "idle" => <>(kpc[c] = "done"))

\* C36: the watcher of a RunWithContext invocation that has returned, woken
\* by the deferred cancel, shuts down no server registered by another
\* invocation of RunWithContext or Start on the same manager.
C36_WatcherOwnServers ==
  [][\A r \in Runs :
       (sd[W(r)] = "wait" /\ sd'[W(r)] # "wait" /\ rres[r] # None) =>
         \A q \in Runs \ {r}, i \in Slots : shut'[q][i] = shut[q][i]]_vars

\* C37: no step removes a server from g.servers unless Shutdown has been
\* invoked on that server, whatever the interleaving of Shutdown, Close and
\* the serve functions that register servers.
C37_RemovedOnlyShut ==
  [][\A r \in Runs, i \in Slots :
       (Tracked(r, i) /\ ~Tracked(r, i)') => shut'[r][i]]_vars

\* C38: no serve function is started on a listener that an earlier Shutdown
\* has closed: when a run, every other run having returned, is about to serve
\* on the listener of a WithUnix strategy with a server no Shutdown has
\* touched, and no serve function ever failed, that listener is open.
C38_UsableListener ==
  (\A q \in Runs, j \in Slots : sres[q][j] \notin ServeErrs) =>
    \A r \in Runs, i \in Slots :
      /\ spc[r][i] = "registered" /\ ~shut[r][i]
      /\ \A q \in Runs \ {r} : rpc[q] \in {"idle", "returned"}
      => ~ListenerClosed(i)

\* C39: g.listenAndServe and g.cleanup have the same length whenever no
\* apply is half-way between its two appends: a strategy adds one element to
\* each or to neither, and Close empties both.
C39_PairedCollections ==
  (\A r \in Runs : rpc[r] # "applied") => Len(listenAndServe) = Len(cleanup)

====
